---- MODULE Spec2Model ----
(***************************************************************************)
(* gresql: search SQL files for statements of given kinds on given tables. *)
(*                                                                         *)
(* Text is modelled as a sequence of atoms.  An atom is a maximal piece of *)
(* a line that the program never looks inside: a whole word (a keyword or  *)
(* a name, made of alphanumerics and `_`), one whitespace character, one   *)
(* punctuation character, or one of the markers "--", "/*", "*/".  No      *)
(* concatenation of atoms used here spells a keyword or a table name, so   *)
(* substring and regex matching on the text coincide with the matching on  *)
(* atoms defined below.                                                    *)
(***************************************************************************)
EXTENDS Integers, Sequences, FiniteSets, TLC

VARIABLES
    \* ---- build ----
    overflow_checks,   \* TRUE: arithmetic overflow panics (debug); FALSE: it wraps (release)
    \* ---- find_statements (one scan of one file under one clause) ----
    scan_path,         \* file_path argument
    scan_lines,        \* the contents of the file behind `reader`
    scan_query,        \* search_query argument
    pc,                \* "idle" | "seeking" | "accumulating" | "returned" | "panicked"
    pos,               \* number of lines `reader` has consumed
    i,                 \* line counter (isize), starts at -1
    comment_level,     \* u8
    begin,             \* begin of the statement being accumulated
    statement_type,    \* kind of the statement being accumulated
    statement_text,    \* text of the statement being accumulated
    found,             \* the local Vec<Statement> `statements` of find_statements
    \* ---- main ----
    main_pc,           \* "phase1" | "phase2" | "done"; "scan" when only find_statements runs
    file_paths,        \* HashSet<PathBuf> from get_file_paths
    search_queries,    \* Vec<SearchQuery> from parse_search_queries
    print_opts,        \* PrintOpts
    matched_files,     \* HashSet<PathBuf>
    phase1_files,      \* matched_files as Phase 1 left it (what "STEP 1 RESULTS" prints)
    qi,                \* index of `query` in the Phase 2 for loop
    pending,           \* files the current drain_filter has not visited yet
    statements,        \* main's Vec<Statement>
    stdout,            \* rows written to standard output
    stderr,            \* messages written to standard error
    \* ---- one call of a parsing function on its own ----
    unit_fn,           \* the function called
    unit_arg,          \* its argument
    unit_ret           \* <<>> before the call, <<value>> once it has returned

scan_vars == <<scan_path, scan_lines, scan_query, pc, pos, i, comment_level,
               begin, statement_type, statement_text, found>>
main_vars == <<main_pc, file_paths, search_queries, print_opts, matched_files,
               phase1_files, qi, pending, statements, stdout, stderr>>
unit_vars == <<unit_fn, unit_arg, unit_ret>>
vars == <<overflow_checks, scan_vars, main_vars, unit_vars>>

\* ------------------------------------------------------------------ bounds
MaxLines == 3        \* lines per file in ScanSpec
MaxSpin == 2         \* reads past end of input the model follows
MaxFiles == 2        \* files given to one run
MaxClauses == 2      \* -s options given to one run
MaxSpecLen == 3      \* characters of a kind specifier given to the kind parsers
MaxParts == 4        \* pieces a statement text given to parse_table is made of

\* ------------------------------------------------------------------ atoms
Min(S) == CHOOSE x \in S : \A y \in S : x <= y

SpaceAtoms == {" ", "\t"}
NonWordAtoms == SpaceAtoms \cup {";", "--", "/*", "*/", "#", "@", "=", "(", ")", ","}

IsSpace(a) == a \in SpaceAtoms
\* \w of the regex crate: alphanumerics and `_`
IsWord(a) == a \notin NonWordAtoms
\* [@#[:alnum:]_]
IsIdent(a) == IsWord(a) \/ a \in {"#", "@"}

\* str::to_lowercase / (?i)
Lower(a) ==
    CASE a = "UPDATE" -> "update"
      [] a = "DELETE" -> "delete"
      [] a = "INSERT" -> "insert"
      [] a = "SELECT" -> "select"
      [] a = "MERGE"  -> "merge"
      [] a = "FROM"   -> "from"
      [] a = "INTO"   -> "into"
      [] a = "SET"    -> "set"
      [] a = "VALUES" -> "values"
      [] OTHER        -> a

Contains(s, a) == \E k \in 1..Len(s) : s[k] = a
StartsWith(s, a) == Len(s) > 0 /\ s[1] = a

\* str::trim
Trim(s) ==
    LET keep == {k \in 1..Len(s) : ~IsSpace(s[k])}
    IN  IF keep = {} THEN <<>>
        ELSE SubSeq(s, Min(keep), CHOOSE k \in keep : \A j \in keep : j <= k)

\* str::trim_start_matches(';')
TrimStartSemis(s) ==
    LET keep == {k \in 1..Len(s) : s[k] # ";"}
    IN  IF keep = {} THEN <<>> ELSE SubSeq(s, Min(keep), Len(s))

\* trim_comment: cut at the first "--"
trim_comment(s) ==
    LET at == {k \in 1..Len(s) : s[k] = "--"}
    IN  IF at = {} THEN s ELSE SubSeq(s, 1, Min(at) - 1)

\* clean_text: tabs to spaces, then trim_comment
clean_text(s) == trim_comment([k \in 1..Len(s) |-> IF s[k] = "\t" THEN " " ELSE s[k]])

\* ------------------------------------------------------- statement types
StatementType == {"Select", "Insert", "Update", "Delete", "Merge"}
None == "None"

\* mutant of TryFromChar: upper-case letters are accepted too
TryFromCharAnyCase(c) ==
    CASE c \in {"s", "S"} -> "Select"
      [] c = "i" -> "Insert"
      [] c \in {"u", "U"} -> "Update"
      [] c = "d" -> "Delete"
      [] c = "m" -> "Merge"
      [] OTHER   -> None

\* impl TryFrom<char> for StatementType
TryFromChar(c) ==
    CASE c = "s" -> "Select"
      [] c = "i" -> "Insert"
      [] c = "u" -> "Update"
      [] c = "d" -> "Delete"
      [] c = "m" -> "Merge"
      [] OTHER   -> None

\* impl TryFrom<String> for StatementType; the string is a sequence of atoms
TryFromString(s) ==
    IF Len(s) # 1 THEN None
    ELSE CASE s[1] = "select" -> "Select"
           [] s[1] = "insert" -> "Insert"
           [] s[1] = "update" -> "Update"
           [] s[1] = "delete" -> "Delete"
           [] s[1] = "merge"  -> "Merge"
           [] OTHER           -> None

\* impl Display for StatementType
Display(st) ==
    CASE st = "Select" -> "SELECT"
      [] st = "Insert" -> "INSERT"
      [] st = "Update" -> "UPDATE"
      [] st = "Delete" -> "DELETE"
      [] st = "Merge"  -> "MERGE"

\* mutant of parse_statement_types: `*` adds its four kinds to the others
parse_statement_typesStarAdds(chars) ==
    LET char_set == {chars[k] : k \in 1..Len(chars)}
    IN  ({TryFromChar(c) : c \in char_set} \ {None})
            \cup (IF "*" \in char_set THEN {"Insert", "Update", "Delete", "Merge"} ELSE {})

\* parse_statement_types: the Vec it returns is used as a set only
parse_statement_types(chars) ==
    LET char_set == {chars[k] : k \in 1..Len(chars)}
    IN  IF "*" \in char_set
        THEN {"Insert", "Update", "Delete", "Merge"}
        ELSE {TryFromChar(c) : c \in char_set} \ {None}

\* ---------------------------------------------------------- search queries
\* str::split(sep): the pieces between the separators, in order
RECURSIVE Split(_, _)
Split(s, sep) ==
    LET at == {k \in 1..Len(s) : s[k] = sep}
    IN  IF at = {} THEN <<s>>
        ELSE <<SubSeq(s, 1, Min(at) - 1)>> \o Split(SubSeq(s, Min(at) + 1, Len(s)), sep)

RECURSIVE parse_search_queries(_)
parse_search_queries(strings) ==
    IF strings = <<>> THEN <<>>
    ELSE LET ps == Split(Head(strings), ":")
             rest == parse_search_queries(Tail(strings))
         IN  CASE Len(ps) = 1 ->
                    <<[statement_types |-> parse_statement_types(<<"*">>),
                       tables |-> Split(ps[1], ",")]>> \o rest
               [] Len(ps) = 2 ->
                    <<[statement_types |-> parse_statement_types(ps[1]),
                       tables |-> Split(ps[2], ",")]>> \o rest
               [] OTHER -> rest

\* `needle` occurs in `line` at atom k
OccursAt(line, needle, k) ==
    /\ k + Len(needle) - 1 <= Len(line)
    /\ \A j \in 1..Len(needle) : line[k + j - 1] = needle[j]

\* \b between atom k and atom k+1 of line (k = 0: start, k = Len: end)
Boundary(line, k) ==
    LET left == k >= 1 /\ IsWord(line[k])
        right == k + 1 <= Len(line) /\ IsWord(line[k + 1])
    IN  left # right

\* SearchQuery::statement_pattern, \b((?i)K1|K2|...)\b, matched against one line
statement_pattern(query, line) ==
    IF query.statement_types = {}
    THEN \E k \in 0..Len(line) : Boundary(line, k)
    ELSE \E k \in 1..Len(line) :
            /\ \E st \in query.statement_types : Lower(line[k]) = Lower(Display(st))
            /\ Boundary(line, k - 1)
            /\ Boundary(line, k)

\* SearchQuery::table_pattern, (T1|T2|...)\b, matched against one line
table_pattern(query, line) ==
    \E n \in 1..Len(query.tables) : \E k \in 1..Len(line) :
        LET t == query.tables[n]
        IN  IF t = <<>> THEN Boundary(line, k - 1) \/ Boundary(line, k)
            ELSE OccursAt(line, t, k) /\ Boundary(line, k + Len(t) - 1)

\* the closure file_is_match of main, on the lines of the file
file_is_match(lines, query) ==
    /\ \E n \in 1..Len(lines) : statement_pattern(query, lines[n])
    /\ \E n \in 1..Len(lines) : table_pattern(query, lines[n])

\* ------------------------------------------------------- find_statements
NoTable == <<>>

\* try_statement_type_from_line: the first whitespace-delimited word, lowercased
try_statement_type_from_line(line) ==
    LET word_start == Min({k \in 1..Len(line) : ~IsSpace(line[k])})
        word_end == Min({k \in word_start..Len(line) :
                            k = Len(line) \/ IsSpace(line[k + 1])})
        first_word == [k \in 1..(word_end - word_start + 1) |->
                            Lower(line[word_start + k - 1])]
    IN  TryFromString(first_word)

\* first atom at or after k that is no whitespace (Len + 1 if none)
SkipSpaces(s, k) == Min({j \in k..(Len(s) + 1) : j = Len(s) + 1 \/ ~IsSpace(s[j])})

\* last atom of the run of identifier atoms that starts at k
IdentEnd(s, k) == Min({j \in k..Len(s) : j = Len(s) \/ ~IsIdent(s[j + 1])})

\* \b(?i:anchor)\s+([@#[:alnum:]_]+) matches s with the anchor at atom k
AnchorAt(anchor, s, k) ==
    /\ Lower(s[k]) = anchor
    /\ k = 1 \/ ~IsWord(s[k - 1])
    /\ k + 1 <= Len(s) /\ IsSpace(s[k + 1])
    /\ SkipSpaces(s, k + 1) <= Len(s)
    /\ IsIdent(s[SkipSpaces(s, k + 1)])

\* Regex::captures(s).get(1) of the anchored pattern: leftmost match
Captures(anchor, s) ==
    LET at == {k \in 1..Len(s) : AnchorAt(anchor, s, k)}
    IN  IF at = {} THEN NoTable
        ELSE LET from == SkipSpaces(s, Min(at) + 1)
             IN  SubSeq(s, from, IdentEnd(s, from))

\* mutant of PrimaryAnchor: INSERT anchored on `from` like the kinds below it
PrimaryAnchorAllFrom(st) ==
    CASE st \in {"Insert", "Select", "Update", "Delete"} -> "from"
      [] st = "Merge" -> "merge"

\* the primary anchor of parse_table
PrimaryAnchor(st) ==
    CASE st = "Insert" -> "into"
      [] st \in {"Select", "Update", "Delete"} -> "from"
      [] st = "Merge" -> "merge"

\* mutant of parse_table: the keyword of UPDATE and DELETE is tried first
parse_tableKeywordFirst(st, s) ==
    CASE st = "Update" /\ Captures("update", s) # NoTable -> Captures("update", s)
      [] st = "Delete" /\ Captures("delete", s) # NoTable -> Captures("delete", s)
      [] OTHER -> Captures(PrimaryAnchor(st), s)

\* parse_table
parse_table(st, s) ==
    IF Captures(PrimaryAnchor(st), s) # NoTable THEN Captures(PrimaryAnchor(st), s)
    ELSE CASE st = "Update" -> Captures("update", s)
           [] st = "Delete" -> Captures("delete", s)
           [] OTHER -> NoTable

U8Max == 255

\* comment_level += 1 and comment_level -= 1 on a u8: [panic, v]
AddU8(level, checks) ==
    IF level = U8Max THEN [panic |-> checks, v |-> 0]
    ELSE [panic |-> FALSE, v |-> level + 1]

SubU8(level, checks) ==
    IF level = 0 THEN [panic |-> checks, v |-> U8Max]
    ELSE [panic |-> FALSE, v |-> level - 1]

\* the two `if line.contains(..)` lines of either loop
TrackComment(level, line, checks) ==
    LET a == IF Contains(line, "/*") THEN AddU8(level, checks)
             ELSE [panic |-> FALSE, v |-> level]
    IN  IF a.panic THEN a
        ELSE IF Contains(line, "*/") THEN SubU8(a.v, checks)
        ELSE a

\* mutant of NewStatement: begin and end swapped
NewStatementSwapped(path, st, table, b, e, text) ==
    [file_path |-> path, statement_type |-> st, table |-> table,
     begin |-> e, end |-> b, text |-> text]

\* mutant of NewStatement: end is the line after the one that ended the statement
NewStatementEndNextLine(path, st, table, b, e, text) ==
    [file_path |-> path, statement_type |-> st, table |-> table,
     begin |-> b, end |-> e + 1, text |-> text]

\* the Statement pushed when the table filter passes
NewStatement(path, st, table, b, e, text) ==
    [file_path |-> path, statement_type |-> st, table |-> table,
     begin |-> b, end |-> e, text |-> text]

\* mutant of TableMatches: any extracted table passes
TableMatchesAnyTable(query, table) == table # NoTable

\* the table filter: search_query.tables.contains(&table)
TableMatches(query, table) ==
    table # NoTable /\ \E n \in 1..Len(query.tables) : query.tables[n] = table

\* the scan state of find_statements as one record
ScanInit(path) ==
    [pc |-> "seeking", pos |-> 0, i |-> -1, comment_level |-> 0, begin |-> 0,
     statement_type |-> None, statement_text |-> <<>>, found |-> <<>>, path |-> path]

\* one iteration of the outer loop (Seeking)
SeekingStep(s, lines, query, checks) ==
    IF s.pos = Len(lines) THEN [s EXCEPT !.pc = "returned"]
    ELSE
    LET line == TrimStartSemis(Trim(lines[s.pos + 1]))
        s1 == [s EXCEPT !.pos = s.pos + 1, !.i = s.i + 1]
        cl == TrackComment(s.comment_level, line, checks)
        s2 == [s1 EXCEPT !.comment_level = cl.v]
    IN  IF line = <<>> \/ StartsWith(line, "--") THEN s1
        ELSE IF cl.panic THEN [s1 EXCEPT !.pc = "panicked"]
        ELSE IF cl.v > 0 THEN s2
        ELSE IF try_statement_type_from_line(line) \notin query.statement_types THEN s2
        ELSE [s2 EXCEPT !.pc = "accumulating",
                        !.begin = s1.i,
                        !.statement_type = try_statement_type_from_line(line),
                        !.statement_text = clean_text(line) \o <<" ">>]

\* one iteration of the inner loop (Accumulating)
AccumulatingStep(s, lines, query, checks) ==
    LET is_more_to_read == s.pos < Len(lines)
        line == IF is_more_to_read THEN Trim(lines[s.pos + 1]) ELSE <<>>
        s1 == [s EXCEPT !.pos = IF is_more_to_read THEN s.pos + 1 ELSE s.pos,
                        !.i = s.i + 1]
        cl == TrackComment(s.comment_level, line, checks)
        s2 == [s1 EXCEPT !.comment_level = cl.v]
        append == line # <<>> /\ ~StartsWith(line, ";")
        text == IF append THEN s.statement_text \o clean_text(line) \o <<" ">>
                ELSE s.statement_text
        table == parse_table(s.statement_type, text)
    IN  IF StartsWith(line, "--") THEN s1
        ELSE IF cl.panic THEN [s1 EXCEPT !.pc = "panicked"]
        ELSE IF cl.v > 0 THEN s2
        ELSE IF append /\ is_more_to_read THEN [s2 EXCEPT !.statement_text = text]
        ELSE [s2 EXCEPT !.pc = "seeking",
                        !.statement_text = text,
                        !.found = IF TableMatches(query, table)
                                  THEN Append(@, NewStatement(s.path, s.statement_type,
                                                  table, s.begin, s1.i, text))
                                  ELSE @]

\* ------------------------------------------------------------------ inputs
\* the lines files are made of
LineSet == {
    <<>>,
    <<"UPDATE", " ", "t_pick_detail">>,
    <<"update", "\t", "t_order">>,
    <<"SET", " ", "a", " ", "/*", " ", "from", " ", "t_pick_detail", " ", "*/">>,
    <<"/*">>,
    <<"*/">>,
    <<"--", " ", "delete", " ", "t_pick_detail">>,
    <<";">>,
    <<"INSERT", " ", "INTO", " ", "t_pick_detail", " ", "(", "a", ")", " ",
      "VALUES", " ", "(", "1", ")", ";">>,
    <<"DELETE", " ", "FROM", " ", "t_order", "#">> }

RECURSIVE FilesUpTo(_)
FilesUpTo(n) ==
    IF n = 0 THEN {<<>>}
    ELSE LET shorter == FilesUpTo(n - 1)
         IN  shorter \cup {Append(f, l) : f \in {g \in shorter : Len(g) = n - 1}, l \in LineSet}

\* the -s arguments a run may be given
ClauseSet == {
    <<"u", ":", "t_pick_detail">>,
    <<"d", ":", "t_pick_detail">>,
    <<"d", ":", "t_order", "#">>,
    <<"i", ":", "t_pick_detail">>,
    <<"u", "d", ":", "t_order", ",", "t_pick_detail">>,
    <<"x", ":", "t_pick_detail">>,
    <<"t_pick_detail">> }

\* ------------------------------------------------- find_statements, stepwise
ScanState ==
    [pc |-> pc, pos |-> pos, i |-> i, comment_level |-> comment_level, begin |-> begin,
     statement_type |-> statement_type, statement_text |-> statement_text,
     found |-> found, path |-> scan_path]

SetScan(s) ==
    /\ pc' = s.pc
    /\ pos' = s.pos
    /\ i' = s.i
    /\ comment_level' = s.comment_level
    /\ begin' = s.begin
    /\ statement_type' = s.statement_type
    /\ statement_text' = s.statement_text
    /\ found' = s.found
    /\ scan_path' = s.path

\* outer `while let Ok(is_more_to_read) = reader.has_data_left()`
Seeking ==
    /\ pc = "seeking"
    /\ SetScan(SeekingStep(ScanState, scan_lines, scan_query, overflow_checks))
    /\ UNCHANGED <<overflow_checks, unit_vars, scan_lines, scan_query, main_vars>>

\* inner `while let Ok(is_more_to_read) = reader.has_data_left()`
Accumulating ==
    /\ pc = "accumulating"
    /\ i < Len(scan_lines) + MaxSpin
    /\ SetScan(AccumulatingStep(ScanState, scan_lines, scan_query, overflow_checks))
    /\ UNCHANGED <<overflow_checks, unit_vars, scan_lines, scan_query, main_vars>>

ScanInitState ==
    /\ overflow_checks \in BOOLEAN
    /\ scan_lines \in FilesUpTo(MaxLines)
    /\ \E c \in ClauseSet : scan_query = parse_search_queries(<<c>>)[1]
    /\ pc = "seeking" /\ pos = 0 /\ i = -1 /\ comment_level = 0 /\ begin = 0
    /\ statement_type = None /\ statement_text = <<>> /\ found = <<>>
    /\ scan_path = 1
    /\ main_pc = "scan"
    /\ file_paths = {} /\ search_queries = <<>> /\ matched_files = {}
    /\ print_opts = [only_file_paths |-> FALSE, hide_statement |-> FALSE]
    /\ phase1_files = {} /\ qi = 0 /\ pending = {} /\ statements = <<>> /\ stdout = <<>>
    /\ stderr = <<>>
    /\ unit_fn = "none" /\ unit_arg = <<>> /\ unit_ret = <<>>

ScanNext == Seeking \/ Accumulating

\* find_statements called on any file of the bounds with any clause
ScanSpec == ScanInitState /\ [][ScanNext]_vars

\* ------------------------------------------------------------------- main
\* the files on disk: path |-> lines
Corpus == <<
    \* 1: an UPDATE of t_pick_detail; DELETE only in a line comment
    << <<"UPDATE", " ", "t_pick_detail">>, <<>>,
       <<"--", " ", "delete", " ", "t_pick_detail">> >>,
    \* 2: an UPDATE and a DELETE of t_pick_detail
    << <<"UPDATE", " ", "t_pick_detail">>, <<";">>,
       <<"DELETE", " ", "FROM", " ", "t_pick_detail">> >>,
    \* 3: an UPDATE of t_order; t_pick_detail only in a line comment
    << <<"update", "\t", "t_order">>, <<>>,
       <<"--", " ", "delete", " ", "t_pick_detail">> >>,
    \* 4: an UPDATE of t_order; t_pick_detail only in a block comment of its body
    << <<"update", "\t", "t_order">>,
       <<"SET", " ", "a", " ", "/*", " ", "from", " ", "t_pick_detail", " ", "*/">> >>,
    \* 5: a DELETE of t_pick_detail; UPDATE only in a line comment
    << <<"--", " ", "UPDATE">>,
       <<"DELETE", " ", "FROM", " ", "t_pick_detail">> >>,
    \* 6: one INSERT into t_pick_detail and a blank line
    << <<"INSERT", " ", "INTO", " ", "t_pick_detail", " ", "(", "a", ")", " ",
         "VALUES", " ", "(", "1", ")", ";">>, <<>> >>,
    \* 7: an UPDATE whose body opens a block comment that is never closed
    << <<"UPDATE", " ", "t_pick_detail">>, <<"/*">> >>,
    \* 8: a close marker with no open marker, then an UPDATE
    << <<"*/">>, <<"UPDATE", " ", "t_pick_detail">> >> >>

Paths == 1..Len(Corpus)

\* -s arguments: ClauseSet and one with two colons
CliClauseSet == ClauseSet \cup {<<"u", ":", "t_pick_detail", ":", "x">>}

RECURSIVE SeqsUpTo(_, _)
SeqsUpTo(S, n) ==
    IF n = 0 THEN {<<>>}
    ELSE LET shorter == SeqsUpTo(S, n - 1)
         IN  shorter \cup {Append(q, x) : q \in {r \in shorter : Len(r) = n - 1}, x \in S}

\* the orders a HashSet may be iterated in
Orders(S) ==
    {o \in [1..Cardinality(S) -> S] : \A a, b \in 1..Cardinality(S) : a # b => o[a] # o[b]}

\* one row of print_statements
Row(opts, st) ==
    IF opts.hide_statement
    THEN [path |-> st.file_path, begin |-> st.begin, end |-> st.end,
          kind |-> st.statement_type, table |-> st.table]
    ELSE [path |-> st.file_path, begin |-> st.begin, end |-> st.end,
          kind |-> st.statement_type, table |-> st.table, text |-> st.text]

\* print_statements
print_statements(opts, sts) == [k \in 1..Len(sts) |-> Row(opts, sts[k])]

\* main after Cli::parse, parse_search_queries and get_file_paths
Init ==
    /\ overflow_checks \in BOOLEAN
    /\ file_paths \in {fp \in SUBSET Paths : Cardinality(fp) <= MaxFiles}
    /\ \E strings \in SeqsUpTo(CliClauseSet, MaxClauses) \ {<<>>} :
            search_queries = parse_search_queries(strings)
    /\ print_opts \in [only_file_paths : BOOLEAN, hide_statement : BOOLEAN]
    /\ main_pc = "phase1"
    /\ matched_files = {} /\ phase1_files = {} /\ qi = 0 /\ pending = {}
    /\ statements = <<>> /\ stdout = <<>> /\ stderr = <<>>
    /\ unit_fn = "none" /\ unit_arg = <<>> /\ unit_ret = <<>>
    /\ pc = "idle" /\ pos = 0 /\ i = -1 /\ comment_level = 0 /\ begin = 0
    /\ statement_type = None /\ statement_text = <<>> /\ found = <<>>
    /\ scan_path = 0 /\ scan_lines = <<>>
    /\ scan_query = [statement_types |-> {}, tables |-> <<>>]

\* mutant of Phase1Files: every file of the corpus is searched, given or not
Phase1FilesOfCorpus(paths, queries) ==
    {p \in Paths : \A n \in 1..Len(queries) : file_is_match(Corpus[p], queries[n])}

\* the set the loop over file_paths inserts into matched_files
Phase1Files(paths, queries) ==
    {p \in paths : \A n \in 1..Len(queries) : file_is_match(Corpus[p], queries[n])}

\* Phase 1: the loop over file_paths with file_is_match
Phase1 ==
    /\ main_pc = "phase1"
    /\ matched_files' = Phase1Files(file_paths, search_queries)
    /\ phase1_files' = matched_files'
    /\ main_pc' = "phase2"
    /\ qi' = 1
    /\ pending' = matched_files'
    /\ UNCHANGED <<overflow_checks, unit_vars, scan_vars, file_paths, search_queries, print_opts,
                   statements, stdout, stderr>>

\* drain_filter calls its closure on the next file: find_statements starts
DrainVisit ==
    /\ main_pc = "phase2" /\ pc = "idle"
    /\ qi <= Len(search_queries)
    /\ \E p \in pending :
        /\ pending' = pending \ {p}
        /\ scan_lines' = Corpus[p]
        /\ scan_query' = search_queries[qi]
        /\ SetScan(ScanInit(p))
    /\ UNCHANGED <<overflow_checks, unit_vars, main_pc, file_paths, search_queries, print_opts,
                   matched_files, phase1_files, qi, statements, stdout, stderr>>

\* mutant of DrainFilter: the closure's answer is ignored, nothing is removed
DrainFilterRemovesNothing(files, path, closure_returned) == files

\* what drain_filter does to the set, given what its closure returned for `path`
DrainFilter(files, path, closure_returned) ==
    IF closure_returned THEN files \ {path} ELSE files

\* find_statements has returned: the rest of the closure, and drain_filter's removal
DrainDecide ==
    /\ main_pc = "phase2" /\ pc = "returned"
    /\ statements' = statements \o found
    /\ matched_files' = DrainFilter(matched_files, scan_path, found # <<>>)
    /\ pc' = "idle"
    /\ UNCHANGED <<overflow_checks, unit_vars, scan_path, scan_lines, scan_query, pos, i,
                   comment_level, begin, statement_type, statement_text, found,
                   main_pc, file_paths, search_queries, print_opts, phase1_files,
                   qi, pending, stdout, stderr>>

\* the drain_filter of one query is through: next query of the for loop
NextQuery ==
    /\ main_pc = "phase2" /\ pc = "idle"
    /\ qi <= Len(search_queries)
    /\ pending = {}
    /\ qi' = qi + 1
    /\ pending' = matched_files
    /\ UNCHANGED <<overflow_checks, unit_vars, scan_vars, main_pc, file_paths, search_queries,
                   print_opts, matched_files, phase1_files, statements, stdout,
                   stderr>>

\* mutant of Written: paths-only mode is tested before the empty-result check
WrittenPathsFirst(opts, sts, files) ==
    IF opts.only_file_paths THEN [k \in 1..Len(files) |-> [path |-> files[k]]]
    ELSE IF sts = <<>> THEN <<>>
    ELSE print_statements(opts, sts)

\* what main writes to standard output after Phase 2; `files` is matched_files
\* in the order its iterator yields it
Written(opts, sts, files) ==
    IF sts = <<>> THEN <<>>
    ELSE IF opts.only_file_paths THEN [k \in 1..Len(files) |-> [path |-> files[k]]]
    ELSE print_statements(opts, sts)

\* after the for loop: the empty-result check and the output
Output ==
    /\ main_pc = "phase2" /\ pc = "idle"
    /\ qi > Len(search_queries)
    /\ main_pc' = "done"
    /\ stderr' = IF statements = <<>> THEN <<"No statements found">> ELSE <<>>
    /\ \E o \in Orders(matched_files) :
            stdout' = Written(print_opts, statements, o)
    /\ UNCHANGED <<overflow_checks, unit_vars, scan_vars, file_paths, search_queries, print_opts,
                   matched_files, phase1_files, qi, pending, statements>>

Next == Phase1 \/ DrainVisit \/ Seeking \/ Accumulating \/ DrainDecide \/ NextQuery \/ Output

\* one run of gresql
Spec == Init /\ [][Next]_vars

\* ------------------------------------------- the parsing functions, one call
\* characters given to TryFrom<char>
CharSet == {"s", "i", "u", "d", "m", "S", "U", "*", ";", "a", "x", "\n", " "}

\* strings given to TryFrom<String>
KeywordSet == {<<"select">>, <<"insert">>, <<"update">>, <<"delete">>, <<"merge">>,
               <<"SELECT">>, <<"UPDATE">>, <<>>, <<"alter">>, <<"drop">>, <<"s">>,
               <<"merge", " ", "into">>}

\* kind specifiers given to parse_statement_types
KindSpecs == SeqsUpTo({"s", "u", "*", "x"}, MaxSpecLen)

\* -s arguments given to parse_search_queries: with one colon, none, and two
UnitClauses ==
    {k \o <<":", "t_order">> : k \in KindSpecs}
        \cup {<<"t_order">>, <<"t_order", ",", "t_pick_detail">>,
              <<"u", ":", "t_order", ":", "x">>}

\* pieces of statement text
PartSet == {<<"UPDATE", " ">>, <<"delete", "\t">>, <<"FROM", " ">>, <<"FROM">>,
            <<"MERGE", " ">>, <<"t_order", " ">>, <<"t_pick_detail">>,
            <<"@", "from", " ">>}

\* concatenations of up to n pieces
RECURSIVE TextsUpTo(_)
TextsUpTo(n) ==
    IF n = 0 THEN {<<>>}
    ELSE TextsUpTo(n - 1) \cup {t \o q : t \in TextsUpTo(n - 1), q \in PartSet}

UnitCalls ==
    [fn : {"TryFromChar"}, arg : CharSet]
        \cup [fn : {"TryFromString"}, arg : KeywordSet]
        \cup [fn : {"parse_statement_types"}, arg : KindSpecs]
        \cup [fn : {"parse_search_queries"}, arg : UnitClauses]
        \cup [fn : {"parse_table"}, arg : StatementType \X TextsUpTo(MaxParts)]

UnitInit ==
    /\ \E c \in UnitCalls : unit_fn = c.fn /\ unit_arg = c.arg
    /\ unit_ret = <<>>
    /\ overflow_checks = TRUE
    /\ main_pc = "unit" /\ pc = "idle"
    /\ pos = 0 /\ i = -1 /\ comment_level = 0 /\ begin = 0
    /\ statement_type = None /\ statement_text = <<>> /\ found = <<>>
    /\ scan_path = 0 /\ scan_lines = <<>>
    /\ scan_query = [statement_types |-> {}, tables |-> <<>>]
    /\ file_paths = {} /\ search_queries = <<>> /\ matched_files = {}
    /\ print_opts = [only_file_paths |-> FALSE, hide_statement |-> FALSE]
    /\ phase1_files = {} /\ qi = 0 /\ pending = {} /\ statements = <<>>
    /\ stdout = <<>> /\ stderr = <<>>

Returns(fn, value) ==
    /\ unit_fn = fn /\ unit_ret = <<>>
    /\ unit_ret' = <<value>>
    /\ UNCHANGED <<overflow_checks, scan_vars, main_vars, unit_fn, unit_arg>>

CallTryFromChar == Returns("TryFromChar", TryFromChar(unit_arg))
CallTryFromString == Returns("TryFromString", TryFromString(unit_arg))
CallParseStatementTypes ==
    Returns("parse_statement_types", parse_statement_types(unit_arg))
CallParseSearchQueries ==
    Returns("parse_search_queries", parse_search_queries(<<unit_arg>>))
CallParseTable == Returns("parse_table", parse_table(unit_arg[1], unit_arg[2]))

UnitNext ==
    \/ CallTryFromChar
    \/ CallTryFromString
    \/ CallParseStatementTypes
    \/ CallParseSearchQueries
    \/ CallParseTable

\* one call of one parsing function on one input of the bounds
UnitSpec == UnitInit /\ [][UnitNext]_vars

\* ----------------------------------------------- find_statements as a whole
\* the two loops run from `s` for at most `fuel` iterations
RECURSIVE RunScan(_, _, _, _, _)
RunScan(s, lines, query, checks, fuel) ==
    IF fuel = 0 \/ s.pc \in {"returned", "panicked"} THEN s
    ELSE RunScan(IF s.pc = "seeking" THEN SeekingStep(s, lines, query, checks)
                 ELSE AccumulatingStep(s, lines, query, checks),
                 lines, query, checks, fuel - 1)

\* find_statements: every line is read once, then one read at end of input and the
\* outer loop's last test; a scan still not through after that never ends
find_statements(path, lines, query, checks) ==
    RunScan(ScanInit(path), lines, query, checks, Len(lines) + 2)

\* find_statements returns Some(..) for file p under clause n of the run
Yields(p, n) ==
    LET r == find_statements(p, Corpus[p], search_queries[n], overflow_checks)
    IN  r.pc = "returned" /\ r.found # <<>>

\* ------------------------------------------------------------------ claims

\* C1: in each clause's pass the file just scanned stays in the surviving set exactly
\* when the scan yielded at least one Statement, and after Phase 2 the surviving set
\* is the set of Phase-1 survivors that yield a Statement under every clause.
C1_SurvivorsYieldUnderEveryClause ==
    /\ (main_pc = "phase2" /\ pc = "idle" /\ scan_path \in Paths)
            => ((scan_path \in matched_files) <=> (found # <<>>))
    /\ main_pc = "done"
            => matched_files = {p \in phase1_files :
                                    \A n \in 1..Len(search_queries) : Yields(p, n)}

\* C2: the scan stops at end of input: once a read has found the file exhausted
\* (the counter i has reached the number of lines), no loop reads again.
C2_ScanStopsAtEndOfInput ==
    pc \in {"seeking", "accumulating", "returned"} => i <= Len(scan_lines)

\* lines read so far that hold an open marker
OpenersRead == {k \in 1..pos : Contains(scan_lines[k], "/*")}

\* C3: the nesting counter never wraps (it never exceeds the number of open markers
\* read, so a close marker met at 0 leaves it at 0) and the scan never aborts.
C3_CommentLevelNeverWraps ==
    /\ pc # "panicked"
    /\ comment_level <= Cardinality(OpenersRead)

\* C4: a file from which the Statement Parser emits a Statement under a clause
\* matches the kind pattern and the table pattern of that clause (Phase 1 keeps it).
C4_Phase1KeepsWhatPhase2Accepts ==
    (pc = "returned" /\ found # <<>>) => file_is_match(scan_lines, scan_query)

\* What SQL makes of comments, for the statements of C5 and C6: the atoms of `line`
\* from atom k on that lie outside every comment, entered at block-comment depth
\* `depth`, and the depth the line leaves behind.
RECURSIVE StripFrom(_, _, _)
StripFrom(line, k, depth) ==
    IF k > Len(line) THEN [out |-> <<>>, depth |-> depth]
    ELSE IF line[k] = "/*" THEN StripFrom(line, k + 1, depth + 1)
    ELSE IF line[k] = "*/" THEN StripFrom(line, k + 1, IF depth > 0 THEN depth - 1 ELSE 0)
    ELSE IF depth > 0 THEN StripFrom(line, k + 1, depth)
    ELSE IF line[k] = "--" THEN [out |-> <<>>, depth |-> 0]
    ELSE LET rest == StripFrom(line, k + 1, depth)
         IN  [out |-> <<line[k]>> \o rest.out, depth |-> rest.depth]

\* block-comment depth at the start of line k (1-based)
RECURSIVE DepthAt(_, _)
DepthAt(lines, k) ==
    IF k = 1 THEN 0 ELSE StripFrom(lines[k - 1], 1, DepthAt(lines, k - 1)).depth

Uncommented(lines, k) == StripFrom(lines[k], 1, DepthAt(lines, k)).out

\* the uncommented text of the lines with zero-based indexes b..e, one space after each
RECURSIVE UncommentedBody(_, _, _)
UncommentedBody(lines, b, e) ==
    IF b > e \/ b + 1 > Len(lines) THEN <<>>
    ELSE Uncommented(lines, b + 1) \o <<" ">> \o UncommentedBody(lines, b + 1, e)

\* a block comment opens, closes or runs on within lines b..e (zero-based)
HasBlockComment(lines, b, e) ==
    \E k \in (b + 1)..(e + 1) :
        /\ k <= Len(lines)
        /\ Contains(lines[k], "/*") \/ Contains(lines[k], "*/") \/ DepthAt(lines, k) > 0

\* the atoms of s that are neither whitespace nor comment markers
Content(s) == SelectSeq(s, LAMBDA a : ~IsSpace(a) /\ a \notin {"/*", "*/"})

RECURSIVE IsSubseq(_, _)
IsSubseq(a, b) ==
    IF a = <<>> THEN TRUE
    ELSE IF b = <<>> THEN FALSE
    ELSE IF Head(a) = Head(b) THEN IsSubseq(Tail(a), Tail(b))
    ELSE IsSubseq(a, Tail(b))

\* table is what some anchor keyword of the kind, standing in s, is followed by
FollowsAnchorIn(st, table, s) ==
    \E k \in 1..Len(s) :
        /\ \/ AnchorAt(PrimaryAnchor(st), s, k)
           \/ st = "Update" /\ AnchorAt("update", s, k)
           \/ st = "Delete" /\ AnchorAt("delete", s, k)
        /\ table = SubSeq(s, SkipSpaces(s, k + 1), IdentEnd(s, SkipSpaces(s, k + 1)))

\* C5: for an emitted Statement whose lines hold a block comment, the text is made
\* only of atoms outside the comment, and the table follows an anchor keyword that
\* stands outside the comment.
C5_BlockCommentLeftOut ==
    \A n \in 1..Len(found) :
        LET st == found[n]
            body == UncommentedBody(scan_lines, st.begin, st.end)
        IN  HasBlockComment(scan_lines, st.begin, st.end) =>
                /\ IsSubseq(Content(st.text), Content(body))
                /\ FollowsAnchorIn(st.statement_type, st.table, body)

\* a table of the clause stands somewhere in the file outside every comment
TableOutsideComments(lines, query) ==
    \E k \in 1..Len(lines) : \E n \in 1..Len(query.tables) :
        \E j \in 1..Len(Uncommented(lines, k)) :
            OccursAt(Uncommented(lines, k), query.tables[n], j)

\* C6: a file that passes Phase 1 for a clause while the clause's tables occur in it
\* only inside comments yields no Statement for that clause.
C6_CommentOnlyTableYieldsNothing ==
    (/\ pc = "returned"
     /\ file_is_match(scan_lines, scan_query)
     /\ ~TableOutsideComments(scan_lines, scan_query))
        => found = <<>>

\* the run had two clauses over the same tables with different kind-sets
TwoClausesSameTables ==
    /\ Len(search_queries) = 2
    /\ search_queries[1].tables = search_queries[2].tables
    /\ search_queries[1].statement_types # search_queries[2].statement_types

\* files that passed Phase 1 and hold a matching statement for one clause only
MatchOneClauseOnly == {p \in phase1_files : Yields(p, 1) # Yields(p, 2)}

\* C7: with two clauses over the same table and different kinds, a Phase-1 survivor
\* with a matching statement for only one clause is not in the final file set, and
\* the result collection holds a Statement of it.
C7_OneClauseOnlyFileExcluded ==
    (main_pc = "done" /\ TwoClausesSameTables) =>
        \A p \in MatchOneClauseOnly :
            /\ p \notin matched_files
            /\ \E k \in 1..Len(statements) : statements[k].file_path = p

C7_Witness ==
    main_pc = "done" /\ TwoClausesSameTables /\ MatchOneClauseOnly # {}

\* C8: when a clause of the run has an empty kind-set, the run ends with an empty
\* Statement collection and no rows on the output.
C8_EmptyKindSetYieldsNothing ==
    (/\ main_pc = "done"
     /\ \E n \in 1..Len(search_queries) : search_queries[n].statement_types = {})
        => statements = <<>> /\ stdout = <<>>

\* line k (zero-based) of the file ends an accumulation: blank or led by `;`
IsTerminator(lines, k) ==
    Trim(lines[k + 1]) = <<>> \/ StartsWith(Trim(lines[k + 1]), ";")

\* C9: every emitted Statement has begin <= end; begin is the line whose leading
\* keyword is the Statement's kind, and end, when it is a line of the file, is the
\* blank or semicolon-led line that ended the accumulation.
C9_BeginNotAfterEnd ==
    \A n \in 1..Len(found) :
        LET st == found[n] IN
        /\ st.begin <= st.end
        /\ 0 <= st.begin /\ st.begin < Len(scan_lines)
        /\ try_statement_type_from_line(TrimStartSemis(Trim(scan_lines[st.begin + 1])))
                = st.statement_type
        /\ st.end < Len(scan_lines) => IsTerminator(scan_lines, st.end)

C9_Witness ==
    /\ pc = "returned"
    /\ \E n \in 1..Len(found) : found[n].end < Len(scan_lines)

\* one-line statements of LineSet, with their kind and table
OneLiners == {
    [line |-> <<"INSERT", " ", "INTO", " ", "t_pick_detail", " ", "(", "a", ")", " ",
                "VALUES", " ", "(", "1", ")", ";">>,
     kind |-> "Insert", table |-> <<"t_pick_detail">>],
    [line |-> <<"UPDATE", " ", "t_pick_detail">>,
     kind |-> "Update", table |-> <<"t_pick_detail">>],
    [line |-> <<"update", "\t", "t_order">>,
     kind |-> "Update", table |-> <<"t_order">>],
    [line |-> <<"DELETE", " ", "FROM", " ", "t_order", "#">>,
     kind |-> "Delete", table |-> <<"t_order", "#">>] }

\* the file is one one-line statement `o` at line k (zero-based), a blank line after
\* it and blank lines before it, and the clause asks for o's kind and table
RoundTripCase(o, k) ==
    /\ Len(scan_lines) = k + 2
    /\ scan_lines[k + 1] = o.line
    /\ \A j \in 1..Len(scan_lines) : j # k + 1 => scan_lines[j] = <<>>
    /\ o.kind \in scan_query.statement_types
    /\ \E n \in 1..Len(scan_query.tables) : scan_query.tables[n] = o.table

\* C10 as claimed: the round trip yields exactly one Statement, of the statement's
\* kind and table, with begin = end = the statement's line index.
C10_RoundTripBeginEqualsEnd ==
    \A o \in OneLiners : \A k \in 0..MaxLines :
        (pc = "returned" /\ RoundTripCase(o, k)) =>
            /\ Len(found) = 1
            /\ found[1].statement_type = o.kind /\ found[1].table = o.table
            /\ found[1].begin = k /\ found[1].end = k

\* C10 amended: the round trip yields exactly one Statement, of the statement's kind
\* and table, with begin = the statement's line index and end = begin + 1, the
\* index of the blank line that ended it.
C10_RoundTripEndIsBlankLine ==
    \A o \in OneLiners : \A k \in 0..MaxLines :
        (pc = "returned" /\ RoundTripCase(o, k)) =>
            /\ Len(found) = 1
            /\ found[1].statement_type = o.kind /\ found[1].table = o.table
            /\ found[1].begin = k /\ found[1].end = k + 1

C10_Witness ==
    /\ pc = "returned"
    /\ \E o \in OneLiners : o.kind = "Insert" /\ RoundTripCase(o, 0)
    /\ Len(found) = 1

\* C11: every Statement a scan emits has a kind of the clause's kind-set and a
\* non-empty table that is, exactly, one of the clause's tables.
C11_EmittedPassBothFilters ==
    \A n \in 1..Len(found) :
        /\ found[n].statement_type \in scan_query.statement_types
        /\ found[n].table # NoTable
        /\ \E m \in 1..Len(scan_query.tables) : scan_query.tables[m] = found[n].table

C11_Witness ==
    /\ pc = "returned" /\ found # <<>>
    /\ Len(scan_query.tables) = 2
    /\ Cardinality(scan_query.statement_types) = 2

\* C12: at every point the Phase-2 survivors are among the Phase-1 survivors,
\* which are among the resolved input files, and no step of a clause pass adds
\* a file to the surviving set.
C12_SurvivorsOnlyShrink ==
    /\ [](matched_files \subseteq phase1_files /\ phase1_files \subseteq file_paths)
    /\ [][main_pc = "phase2" => matched_files' \subseteq matched_files]_vars

C12_Witness ==
    /\ main_pc = "done"
    /\ phase1_files # file_paths
    /\ matched_files # phase1_files

\* C13: a kind specifier that contains `*`, alone or among other characters
\* (`s` included), and a clause with no colon, give exactly Insert, Update,
\* Delete and Merge: Select is never among them.
AllButSelect == {"Insert", "Update", "Delete", "Merge"}

C13_WildcardExcludesSelect ==
    unit_ret # <<>> =>
        /\ unit_fn = "parse_statement_types" /\ Contains(unit_arg, "*")
                => unit_ret[1] = AllButSelect
        /\ unit_fn = "parse_search_queries" /\ Len(unit_ret[1]) = 1
            /\ (Contains(unit_arg, "*") \/ ~Contains(unit_arg, ":"))
                => unit_ret[1][1].statement_types = AllButSelect

C13_Witness ==
    /\ unit_fn = "parse_search_queries" /\ unit_ret # <<>>
    /\ Contains(unit_arg, "*") /\ Contains(unit_arg, "s") /\ Contains(unit_arg, "u")
    /\ Len(unit_ret[1]) = 1

\* C14: the table of an UPDATE or DELETE is the identifier after the update or
\* delete keyword only when the text has no `from <identifier>`; when it has
\* one, that identifier is the table. SELECT and MERGE have no second anchor:
\* a SELECT without `from <identifier>` has no table.
HasAnchor(anchor, s) == \E k \in 1..Len(s) : AnchorAt(anchor, s, k)

C14_FallbackOnlyWhenPrimaryFails ==
    unit_fn = "parse_table" /\ unit_ret # <<>> =>
        LET st == unit_arg[1]
            s == unit_arg[2]
            table == unit_ret[1]
        IN  /\ st \in {"Update", "Delete"} /\ HasAnchor("from", s)
                    => table = Captures("from", s)
            /\ st = "Update" /\ ~HasAnchor("from", s) => table = Captures("update", s)
            /\ st = "Delete" /\ ~HasAnchor("from", s) => table = Captures("delete", s)
            /\ st = "Select" /\ ~HasAnchor("from", s) => table = NoTable
            /\ st = "Merge" /\ ~HasAnchor("merge", s) => table = NoTable

C14_Witness ==
    /\ unit_fn = "parse_table" /\ unit_ret # <<>>
    /\ unit_arg[1] = "Update"
    /\ HasAnchor("from", unit_arg[2]) /\ HasAnchor("update", unit_arg[2])
    /\ Captures("update", unit_arg[2]) = <<"t_order">>
    /\ unit_ret[1] = <<"t_pick_detail">>

\* C15: the single-character kind parser succeeds exactly on s, i, u, d and m,
\* with the kind each stands for, and fails on every other character; the
\* keyword parser succeeds exactly on the lower-case words select, insert,
\* update, delete and merge and fails on every other string, the empty one
\* included.
KindOfChar == [s |-> "Select", i |-> "Insert", u |-> "Update", d |-> "Delete",
               m |-> "Merge"]
KindOfWord == [select |-> "Select", insert |-> "Insert", update |-> "Update",
               delete |-> "Delete", merge |-> "Merge"]

C15_KindParsersAcceptExactly ==
    unit_ret # <<>> =>
        /\ unit_fn = "TryFromChar" =>
                unit_ret[1] = IF unit_arg \in DOMAIN KindOfChar
                              THEN KindOfChar[unit_arg] ELSE None
        /\ unit_fn = "TryFromString" =>
                unit_ret[1] = IF Len(unit_arg) = 1 /\ unit_arg[1] \in DOMAIN KindOfWord
                              THEN KindOfWord[unit_arg[1]] ELSE None

C15_Witness ==
    /\ unit_ret = <<None>>
    /\ \/ unit_fn = "TryFromChar" /\ unit_arg = "*"
       \/ unit_fn = "TryFromString" /\ unit_arg = <<>>

\* C16: while no Statement has matched nothing is written to standard output,
\* and a run that ends with no Statement ends in the empty-result condition,
\* whatever the output mode and even when files survive Phase 2.
C16_NoStatementNoRows ==
    /\ statements = <<>> => stdout = <<>>
    /\ main_pc = "done" =>
            (stderr = <<"No statements found">> <=> statements = <<>>)

C16_Witness ==
    /\ main_pc = "done" /\ statements = <<>>
    /\ matched_files # {}
    /\ print_opts.only_file_paths

\* number of times Statement st is in the collection sts
Occurrences(sts, st) == Cardinality({k \in 1..Len(sts) : sts[k] = st})

\* the Statements find_statements returns for file p under clause n of the run
FoundUnder(p, n) ==
    LET r == find_statements(p, Corpus[p], search_queries[n], overflow_checks)
    IN  IF r.pc = "returned" THEN {r.found[k] : k \in 1..Len(r.found)} ELSE {}

\* C17: no deduplication: a statement of a Phase-1 survivor that two clauses of
\* the run both match is in the result collection once per clause, so at least
\* twice.
C17_OverlapEmittedPerClause ==
    main_pc = "done" =>
        \A p \in phase1_files : \A a, b \in 1..Len(search_queries) :
            a < b => \A st \in FoundUnder(p, a) \cap FoundUnder(p, b) :
                        Occurrences(statements, st) >= 2

\* C18: in paths-only mode with at least one Statement matched, the output is
\* one path row per file of the final surviving set, no statement row, and
\* every path written owns at least one Statement of the result collection.
C18_PathsOnlyPathsOwnStatements ==
    (main_pc = "done" /\ print_opts.only_file_paths /\ statements # <<>>) =>
        /\ Len(stdout) = Cardinality(matched_files)
        /\ \A k \in 1..Len(stdout) : DOMAIN stdout[k] = {"path"}
        /\ {stdout[k].path : k \in 1..Len(stdout)} = matched_files
        /\ \A k \in 1..Len(stdout) :
                \E n \in 1..Len(statements) : statements[n].file_path = stdout[k].path

\* the next line the reader hands out lies outside every block comment and
\* holds no comment marker itself
PlainLineNext ==
    /\ pos < Len(scan_lines)
    /\ DepthAt(scan_lines, pos + 1) = 0
    /\ ~Contains(scan_lines[pos + 1], "/*") /\ ~Contains(scan_lines[pos + 1], "*/")

\* the next read ends the accumulation: end of file, or a line outside every
\* block comment that is empty or begins with `;`
TerminatorNext ==
    \/ pos = Len(scan_lines)
    \/ /\ PlainLineNext
       /\ Trim(scan_lines[pos + 1]) = <<>> \/ StartsWith(Trim(scan_lines[pos + 1]), ";")

\* C19: while Accumulating, the read of a terminator (or of end of file) ends the
\* accumulation, runs the extraction once (at most one Statement more, begun at
\* `begin`) and returns to Seeking with the terminator consumed; the read of any
\* other line outside block comments keeps Accumulating, emits nothing, starts no
\* new statement, and appends the line unless it is a `--` line.
C19_AccumulationEndsAtTerminator ==
    [][pc = "accumulating" =>
        /\ begin' = begin /\ statement_type' = statement_type
        /\ TerminatorNext =>
                /\ pc' = "seeking"
                /\ pos' = Min({pos + 1, Len(scan_lines)})
                /\ \/ found' = found
                   \/ /\ Len(found') = Len(found) + 1
                      /\ SubSeq(found', 1, Len(found)) = found
                      /\ found'[Len(found')].begin = begin
        /\ (PlainLineNext /\ ~TerminatorNext) =>
                /\ pc' = "accumulating"
                /\ found' = found
                /\ statement_text' =
                        IF StartsWith(Trim(scan_lines[pos + 1]), "--") THEN statement_text
                        ELSE statement_text \o clean_text(Trim(scan_lines[pos + 1])) \o <<" ">>
    ]_vars

\* C20: begin and end of every emitted Statement are indexes of lines of the
\* file: 0 <= begin <= end <= N - 1 for a file of N lines.
C20_RangeWithinFile ==
    \A n \in 1..Len(found) :
        /\ 0 <= found[n].begin
        /\ found[n].begin <= found[n].end
        /\ found[n].end <= Len(scan_lines) - 1

\* C21: within one scan no line is read twice and a scan that returns has read
\* every line; the Statements emitted have strictly increasing, pairwise
\* disjoint line ranges: each one ends before the next one begins.
C21_RangesDisjointIncreasing ==
    /\ [](\A n \in 1..Len(found) : \A m \in 1..Len(found) :
                n < m => found[n].end < found[m].begin)
    /\ [](pc = "returned" => pos = Len(scan_lines))
    /\ [][pos' = pos \/ (pos' = pos + 1 /\ pos' <= Len(scan_lines))]_vars

C21_Witness ==
    /\ pc = "returned"
    /\ Len(found) >= 2
    /\ found[1].end + 1 = found[2].begin

====
